---- MODULE Spec2Model ----
(***************************************************************************)
(* Model of gh_pages/pv_logger.py: one scrape run (run_once), the value    *)
(* parsers (to_f, parse_time), the CSV log (pandas read_csv / concat /     *)
(* to_csv) and the HTML snapshot (write_html_snapshot).                    *)
(*                                                                         *)
(* A text is a sequence of one-character strings.  Python's None is the    *)
(* record with nil = TRUE, so that None and "" stay different values.      *)
(***************************************************************************)
EXTENDS Integers, Sequences, FiniteSets, TLC

\* ------------------------------------------------------------------ bounds
\* runs a process may start under Spec (sequential runs)
MaxRuns == 2
\* last wall clock position; position c is c half minutes after 2024-05-01 09:30:30 JST
MaxClock == 1
\* length of the generated inputs of the parser specification
MaxLen == 3
\* largest store handed to the renderer specification
MaxStoreRows == 600
\* the renderer specification is also handed every store of 0..MaxSmallRows rows
MaxSmallRows == 20

\* ------------------------------------------------------------ text helpers
NoneT == [nil |-> TRUE, v |-> <<>>]
SomeT(t) == [nil |-> FALSE, v |-> t]
NoneF == [nil |-> TRUE, m |-> 0, e |-> 0]
\* an exception leaving to_f (TypeError, ValueError) instead of a value
RaiseF == [nil |-> TRUE, m |-> 1, e |-> 0]
SomeF(mm, ee) == [nil |-> FALSE, m |-> mm, e |-> ee]

DigitChars == <<"0", "1", "2", "3", "4", "5", "6", "7", "8", "9">>
IsDigit(c) == \E i \in 1..10 : DigitChars[i] = c
DigitVal(c) == (CHOOSE i \in 1..10 : DigitChars[i] = c) - 1

RECURSIVE Pow10(_)
Pow10(n) == IF n = 0 THEN 1 ELSE 10 * Pow10(n - 1)

\* digits of a text of digits, as a number
RECURSIVE NatOf(_)
NatOf(t) == IF t = <<>> THEN 0 ELSE 10 * NatOf(SubSeq(t, 1, Len(t) - 1)) + DigitVal(t[Len(t)])

\* decimal digits of a natural number
RECURSIVE NatChars(_)
NatChars(n) == IF n < 10 THEN <<DigitChars[n + 1]>> ELSE NatChars(n \div 10) \o <<DigitChars[(n % 10) + 1]>>

\* n written with at least w digits (zero padded)
RECURSIVE Pad(_, _)
Pad(n, w) == IF Len(NatChars(n)) >= w THEN NatChars(n) ELSE <<"0">> \o Pad(n, w - 1)

\* str.replace(",", ""): every comma is removed
RECURSIVE RemoveCommas(_)
RemoveCommas(t) == IF t = <<>> THEN <<>> ELSE (IF t[1] = "," THEN <<>> ELSE <<t[1]>>) \o RemoveCommas(Tail(t))

\* str.replace(marker, "") for the two-character "as of now" marker U+73FE U+5728:
\* every occurrence is removed.  The two characters are written "U73FE" and "U5728".
RECURSIVE RemoveMarker(_)
RemoveMarker(t) == IF Len(t) >= 2 /\ t[1] = "U73FE" /\ t[2] = "U5728" THEN RemoveMarker(SubSeq(t, 3, Len(t))) ELSE IF t = <<>> THEN <<>> ELSE <<t[1]>> \o RemoveMarker(Tail(t))

\* str.strip(): white space removed at both ends
RECURSIVE LStrip(_)
LStrip(t) == IF t # <<>> /\ t[1] = " " THEN LStrip(Tail(t)) ELSE t
RECURSIVE RStrip(_)
RStrip(t) == IF t # <<>> /\ t[Len(t)] = " " THEN RStrip(SubSeq(t, 1, Len(t) - 1)) ELSE t
Strip(t) == RStrip(LStrip(t))

\* length of the longest run of digits at the head of t
RECURSIVE DigitRun(_)
DigitRun(t) == IF t # <<>> /\ IsDigit(t[1]) THEN 1 + DigitRun(Tail(t)) ELSE 0

\* ------------------------------------------------------------------ floats
\* A float is m * 10^-e, kept normalised (no trailing zero in the fraction).
RECURSIVE Norm(_, _)
Norm(mm, ee) == IF ee > 0 /\ mm % 10 = 0 THEN Norm(mm \div 10, ee - 1) ELSE SomeF(mm, ee)

\* float(s) for s = [-+]? digits ( "." digits )?   (what the pattern of to_f can hand it
\* once a "." joins the two digit runs); a "," in s makes float() raise ValueError
FloatOf(s) ==
    LET neg == s[1] = "-"
        body == IF s[1] = "-" \/ s[1] = "+" THEN Tail(s) ELSE s
        ni == DigitRun(body)
        ip == SubSeq(body, 1, ni)
        fp == IF Len(body) > ni THEN SubSeq(body, ni + 2, Len(body)) ELSE <<>>
        mag == NatOf(ip) * Pow10(Len(fp)) + NatOf(fp)
    IN  IF Len(body) > ni /\ body[ni + 1] = "," THEN RaiseF
        ELSE Norm(IF neg THEN 0 - mag ELSE mag, Len(fp))

\* repr(float) as to_csv writes it: "1234.5", "0.0", "-3.2"
FormatFloat(f) ==
    LET a == IF f.m < 0 THEN 0 - f.m ELSE f.m
        ip == a \div Pow10(f.e)
        fp == a % Pow10(f.e)
    IN  (IF f.m < 0 THEN <<"-">> ELSE <<>>) \o NatChars(ip) \o <<".">> \o (IF f.e = 0 THEN <<"0">> ELSE Pad(fp, f.e))

\* ------------------------------------------------------------------- to_f
\* length of the match of [-+]?\d+(?:[.,]\d+)? at the head of t, 0 when there is none
MatchLen(t) ==
    LET sg == IF t # <<>> /\ (t[1] = "-" \/ t[1] = "+") THEN 1 ELSE 0
        r1 == SubSeq(t, sg + 1, Len(t))
        n1 == DigitRun(r1)
        r2 == SubSeq(r1, n1 + 1, Len(r1))
        n2 == IF r2 # <<>> /\ (r2[1] = "." \/ r2[1] = ",") THEN DigitRun(Tail(r2)) ELSE 0
    IN  IF n1 = 0 THEN 0 ELSE sg + n1 + (IF n2 > 0 THEN 1 + n2 ELSE 0)

\* re.search: the match at the leftmost position that has one
RECURSIVE Search(_)
Search(t) == IF t = <<>> THEN NoneT ELSE IF MatchLen(t) > 0 THEN SomeT(SubSeq(t, 1, MatchLen(t))) ELSE Search(Tail(t))

to_f(x) ==
    IF x.nil \/ x.v = <<>> THEN NoneF
    ELSE LET mt == Search(RemoveCommas(x.v))
         IN  IF mt.nil THEN NoneF ELSE FloatOf(mt.v)

\* ------------------------------------------------------------- date and time
\* A datetime in the zone JST (Asia/Tokyo, UTC+09:00, no daylight saving).
NoneD == [nil |-> TRUE, Y |-> 0, mo |-> 0, d |-> 0, H |-> 0, M |-> 0, S |-> 0]
SomeD(y, mo, d, h, mi, sec) == [nil |-> FALSE, Y |-> y, mo |-> mo, d |-> d, H |-> h, M |-> mi, S |-> sec]

IsLeap(y) == (y % 4 = 0 /\ y % 100 # 0) \/ y % 400 = 0
DaysIn(y, mo) == IF mo = 2 THEN (IF IsLeap(y) THEN 29 ELSE 28) ELSE IF mo \in {4, 6, 9, 11} THEN 30 ELSE 31

\* One numeric directive of strptime at the head of t, followed by something that is
\* no digit: the run of digits must be one of the directive's spellings (one digit, or
\* two digits in lo..hi; a single "0" only when lo = 0).  n = 0 when it does not match.
NumField(t, lo, hi) ==
    LET n == DigitRun(t)
        v == NatOf(SubSeq(t, 1, n))
    IN  IF n = 1 /\ v >= lo THEN [n |-> 1, v |-> v]
        ELSE IF n = 2 /\ v >= lo /\ v <= hi THEN [n |-> 2, v |-> v]
        ELSE [n |-> 0, v |-> 0]

\* %d also takes a blank and one digit 1..9
DayField(t) ==
    IF Len(t) >= 2 /\ t[1] = " " /\ IsDigit(t[2]) /\ DigitVal(t[2]) >= 1 /\ ~(Len(t) >= 3 /\ IsDigit(t[3]))
    THEN [n |-> 2, v |-> DigitVal(t[2])]
    ELSE NumField(t, 1, 31)

\* datetime.strptime(t, "%Y<sep>%m<sep>%d %H:%M"); NoneD stands for ValueError
Strptime(t, sep) ==
    IF ~(Len(t) >= 5 /\ DigitRun(t) = 4 /\ t[5] = sep) THEN NoneD
    ELSE LET y == NatOf(SubSeq(t, 1, 4))
             t1 == SubSeq(t, 6, Len(t))
             fm == NumField(t1, 1, 12)
         IN  IF fm.n = 0 \/ Len(t1) <= fm.n \/ t1[fm.n + 1] # sep THEN NoneD
             ELSE LET t2 == SubSeq(t1, fm.n + 2, Len(t1))
                      fd == DayField(t2)
                      t3 == SubSeq(t2, fd.n + 1, Len(t2))
                      t4 == LStrip(t3)
                      fh == NumField(t4, 0, 23)
                  IN  IF fd.n = 0 \/ t4 = t3 \/ fh.n = 0 \/ Len(t4) <= fh.n \/ t4[fh.n + 1] # ":" THEN NoneD
                      ELSE LET t5 == SubSeq(t4, fh.n + 2, Len(t4))
                               fi == NumField(t5, 0, 59)
                           IN  IF fi.n = 0 \/ Len(t5) # fi.n THEN NoneD
                               ELSE IF y < 1 \/ fd.v > DaysIn(y, fm.v) THEN NoneD
                               ELSE SomeD(y, fm.v, fd.v, fh.v, fi.v, 0)

parse_time(s) ==
    LET t == Strip(RemoveMarker(IF s.nil THEN <<>> ELSE s.v))
        a == Strptime(t, "/")
    IN  IF ~a.nil THEN a ELSE Strptime(t, "-")

\* datetime.isoformat(timespec="minutes") of a JST datetime
isoformat(x) == Pad(x.Y, 4) \o <<"-">> \o Pad(x.mo, 2) \o <<"-">> \o Pad(x.d, 2) \o <<"T">> \o Pad(x.H, 2) \o <<":">> \o Pad(x.M, 2) \o <<"+", "0", "9", ":", "0", "0">>

\* strftime("%Y-%m-%d %H:%M")
strftime(x) == Pad(x.Y, 4) \o <<"-">> \o Pad(x.mo, 2) \o <<"-">> \o Pad(x.d, 2) \o <<" ">> \o Pad(x.H, 2) \o <<":">> \o Pad(x.M, 2)

\* datetime.now(tz=JST) when the clock stands at c half minutes after 2024-05-01 09:30:30
Now(c) ==
    LET tm == 570 + ((c + 1) \div 2)
    IN  SomeD(2024, 5, 1 + (tm \div 1440), (tm % 1440) \div 60, tm % 60, 30 * ((c + 1) % 2))

\* .replace(second=0, microsecond=0)
TruncMinute(x) == [x EXCEPT !.S = 0]

\* ------------------------------------------------------------ configuration
\* A selector is written as one token, so a selector list is a text of tokens, "," and " ".
TimeSel == <<".measurementWidget .updateTime">>
SelSell == <<"span.value.todaySellPower">>
SelBuy == <<"span.value.todayBuyPower">>
SelCons == <<"span.value.todayConsPower">>
SelSelf == <<"span.value.todaySelfConsPower">>
SelGen == <<"span.value.todayGeneratedPower">>
SelExtra == <<"span.value.extra">>
DefaultSelectors == SelSell \o <<",">> \o SelBuy \o <<",">> \o SelCons \o <<",">> \o SelSelf \o <<",">> \o SelGen

\* str.split(","): the pieces between the commas (one piece, "", for the empty text)
RECURSIVE Split(_)
Split(t) ==
    IF \A i \in 1..Len(t) : t[i] # "," THEN <<t>>
    ELSE LET i == CHOOSE j \in 1..Len(t) : t[j] = "," /\ \A k \in 1..(j - 1) : t[k] # ","
         IN  <<SubSeq(t, 1, i - 1)>> \o Split(SubSeq(t, i + 1, Len(t)))

\* os.getenv(name, default) on the environment e
getenv(e, name, default) == IF e[name].nil THEN default ELSE e[name].v

CfgNone == [username |-> <<>>, password |-> <<>>, time_sel |-> <<>>, sels |-> <<>>]

\* a faulty variant of load_cfg (the formulas that depend on load_cfg must reject it): the selector count is checked against 4
load_cfg_four(e) ==
    LET user == getenv(e, "USERNAME", getenv(e, "PV_USERNAME", <<>>))
        pw == getenv(e, "PASSWORD", getenv(e, "PV_PASSWORD", <<>>))
        parts == Split(getenv(e, "METRIC_SELECTORS", DefaultSelectors))
        sels == [i \in 1..Len(parts) |-> Strip(parts[i])]
    IN  IF user = <<>> \/ pw = <<>> THEN [exit |-> "credentials", cfg |-> CfgNone]
        ELSE IF Len(sels) < 4 THEN [exit |-> "selectors", cfg |-> CfgNone]
        ELSE [exit |-> "", cfg |-> [username |-> user, password |-> pw, time_sel |-> TimeSel, sels |-> sels]]

\* load_cfg: exit = "" and the Cfg, or the SystemExit it raises
load_cfg(e) ==
    LET user == getenv(e, "USERNAME", getenv(e, "PV_USERNAME", <<>>))
        pw == getenv(e, "PASSWORD", getenv(e, "PV_PASSWORD", <<>>))
        parts == Split(getenv(e, "METRIC_SELECTORS", DefaultSelectors))
        sels == [i \in 1..Len(parts) |-> Strip(parts[i])]
    IN  IF user = <<>> \/ pw = <<>> THEN [exit |-> "credentials", cfg |-> CfgNone]
        ELSE IF Len(sels) < 5 THEN [exit |-> "selectors", cfg |-> CfgNone]
        ELSE [exit |-> "", cfg |-> [username |-> user, password |-> pw, time_sel |-> TimeSel, sels |-> sels]]

\* ------------------------------------------------------------------ the page
\* The dashboard's DOM at extraction time: each selector's element text, or NoneT
\* when no element matches.  page.query_selector(sel) is dom[sel].
Labels == <<"sell", "buy", "cons", "self", "gen">>
query_selector(dom, sel) == IF sel \in DOMAIN dom THEN dom[sel] ELSE NoneT

\* an exception (AttributeError) instead of a text
RaiseT == [nil |-> TRUE, v |-> <<"!">>]

\* a faulty variant of ElemText (the formulas that depend on ElemText must reject it): no test for a missing element (AttributeError on None)
ElemText_nocheck(el) == IF el.nil THEN RaiseT ELSE SomeT(Strip(el.v))

\* el.inner_text().strip() if el else None
ElemText(el) == IF el.nil THEN NoneT ELSE SomeT(Strip(el.v))

\* dict[k] = v and dict.get(k)
DictSet(dd, k, v) == [x \in (DOMAIN dd) \cup {k} |-> IF x = k THEN v ELSE dd[x]]
DictGet(dd, k) == IF k \in DOMAIN dd THEN dd[k] ELSE NoneT

\* ---------------------------------------------------------------- the CSV log
Columns == <<"page_time_jst", "scrape_time_jst", "sell_kwh", "buy_kwh", "cons_kwh", "self_kwh", "gen_kwh">>

\* The file docs/data/pv_log.csv: absent, or a header line (<<>> for a file of zero
\* bytes) and the data lines, each a sequence of cells, each cell a text.
FileAbsent == [exists |-> FALSE, header |-> <<>>, lines |-> <<>>]
File(h, ls) == [exists |-> TRUE, header |-> h, lines |-> ls]

\* A DataFrame: the column names in order and the rows, each a function from the
\* column names to a value (a text, a float, or NaN written NoneF).
DfNone == [columns |-> <<>>, rows |-> <<>>]
InSeq(x, sq) == \E i \in 1..Len(sq) : sq[i] = x
IndexOf(x, sq) == CHOOSE i \in 1..Len(sq) : sq[i] = x
SeqSet(sq) == {sq[i] : i \in 1..Len(sq)}

\* a cell that read_csv takes for a number
IsNumberText(c) == c # <<>> /\ MatchLen(c) = Len(c) /\ \A i \in 1..Len(c) : c[i] # ","

\* read_csv's type inference: a column is numeric when every cell of it that is not
\* empty is a number
numeric_columns(f) == [j \in 1..Len(f.header) |-> \A i \in 1..Len(f.lines) : f.lines[i][j] = <<>> \/ IsNumberText(f.lines[i][j])]

\* the value read_csv gives a cell: NaN when empty, a float in a numeric column, else the text
cell_value(c, num) == IF c = <<>> THEN NoneF ELSE IF num THEN FloatOf(c) ELSE SomeT(c)

\* pd.read_csv of a file with a header.  (numeric is bound by the set constructor so
\* that it is computed once, not once a cell.)
read_csv(f) ==
    CHOOSE df \in {[columns |-> f.header,
                    rows |-> [i \in 1..Len(f.lines) |-> [c \in SeqSet(f.header) |-> cell_value(f.lines[i][IndexOf(c, f.header)], numeric[IndexOf(c, f.header)])]]]
                   : numeric \in {numeric_columns(f)}} : TRUE

\* pd.DataFrame([row]) of the row dict, whose keys were inserted in the order Columns
DataFrame1(row) == [columns |-> Columns, rows |-> <<row>>]

\* a faulty variant of concat (the formulas that depend on concat must reject it): the frame that was read is dropped (df = pd.DataFrame([row]) always)
concat_overwrite(a, b) == b

\* pd.concat([a, b], ignore_index=True): a's columns, then b's other columns; a value
\* a frame does not have is NaN
concat(a, b) ==
    LET cols == a.columns \o SelectSeq(b.columns, LAMBDA c : ~InSeq(c, a.columns))
        widen(r) == [c \in SeqSet(cols) |-> IF c \in DOMAIN r THEN r[c] ELSE NoneF]
    IN  [columns |-> cols,
         rows |-> [i \in 1..(Len(a.rows) + Len(b.rows)) |-> IF i <= Len(a.rows) THEN widen(a.rows[i]) ELSE widen(b.rows[i - Len(a.rows)])]]

\* the text of a value in the file: NaN and None are empty, a float is its repr
CellOf(v) == IF v.nil THEN <<>> ELSE IF "v" \in DOMAIN v THEN v.v ELSE FormatFloat(v)

\* df.to_csv(path, index=False): the header and one line a row, cells in column order
to_csv(df) == File(df.columns, [i \in 1..Len(df.rows) |-> [j \in 1..Len(df.columns) |-> CellOf(df.rows[i][df.columns[j]])]])

\* a faulty variant of tail (the formulas that depend on tail must reject it): df.head(n)
tail_head(df, n) == [df EXCEPT !.rows = IF Len(df.rows) <= n THEN df.rows ELSE SubSeq(df.rows, 1, n)]

\* df.tail(n)
tail(df, n) == [df EXCEPT !.rows = IF Len(df.rows) <= n THEN df.rows ELSE SubSeq(df.rows, Len(df.rows) - n + 1, Len(df.rows))]

\* --------------------------------------------------------------- one row
RowNone == [page_time_jst |-> NoneT, scrape_time_jst |-> NoneT, sell_kwh |-> NoneF, buy_kwh |-> NoneF, cons_kwh |-> NoneF, self_kwh |-> NoneF, gen_kwh |-> NoneF]

\* x or "" for an optional text x
OrEmpty(x) == IF x.nil \/ x.v = <<>> THEN SomeT(<<>>) ELSE x

\* a faulty variant of page_time (the formulas that depend on page_time must reject it): the operands of "or" swapped (scrape or parse_time(...))
page_time_scrape(data, scrape) == scrape

\* parse_time(...) or scrape: a datetime is never falsy, so only None falls back
page_time(data, scrape) ==
    LET pt == parse_time(OrEmpty(DictGet(data, "page_time")))
    IN  IF pt.nil THEN scrape ELSE pt

\* the row dict of run_once, keys in the order they are written
make_row(data, scrape) ==
    [page_time_jst |-> SomeT(isoformat(page_time(data, scrape))),
     scrape_time_jst |-> SomeT(isoformat(scrape)),
     sell_kwh |-> to_f(DictGet(data, "sell")),
     buy_kwh |-> to_f(DictGet(data, "buy")),
     cons_kwh |-> to_f(DictGet(data, "cons")),
     self_kwh |-> to_f(DictGet(data, "self")),
     gen_kwh |-> to_f(DictGet(data, "gen"))]

RowRaises(r) == \E c \in DOMAIN r : r[c] = RaiseF

\* ------------------------------------------------------------- the snapshot
\* write_html_snapshot's default max_rows
max_rows == 500
Placeholder == <<"U2014">>

\* The table area of the page: the "no CSV yet" paragraph, or the table that
\* df.to_html renders (its header and its rows of cells, NaN shown as "").
NoCsvYet == [kind |-> "message", columns |-> <<>>, rows |-> <<>>]
to_html(df) == [kind |-> "table", columns |-> df.columns,
                rows |-> [i \in 1..Len(df.rows) |-> [j \in 1..Len(df.columns) |-> CellOf(df.rows[i][df.columns[j]])]]]

\* a faulty variant of snapshot_parts (the formulas that depend on snapshot_parts must reject it): iloc[-1] without the len(df) test (IndexError on no rows)
snapshot_parts_nolen(f, n) ==
    IF ~f.exists THEN [raises |-> FALSE, last_ts |-> Placeholder, table |-> NoCsvYet]
    ELSE IF f.header = <<>> \/ f.lines = <<>> THEN [raises |-> TRUE, last_ts |-> <<>>, table |-> NoCsvYet]
    ELSE CHOOSE r \in {[raises |-> FALSE,
                         last_ts |-> CellOf(df.rows[Len(df.rows)]["page_time_jst"]),
                         table |-> to_html(df)]
                        : df \in {tail(read_csv(f), n)}} : TRUE

\* lines 64-72 of write_html_snapshot on the file f: raises (EmptyDataError) on a
\* file of zero bytes, else last_ts and table_html
snapshot_parts(f, n) ==
    IF ~f.exists THEN [raises |-> FALSE, last_ts |-> Placeholder, table |-> NoCsvYet]
    ELSE IF f.header = <<>> THEN [raises |-> TRUE, last_ts |-> <<>>, table |-> NoCsvYet]
    ELSE CHOOSE r \in {[raises |-> FALSE,
                         last_ts |-> IF Len(df.rows) > 0 THEN CellOf(df.rows[Len(df.rows)]["page_time_jst"]) ELSE Placeholder,
                         table |-> to_html(df)]
                        : df \in {tail(read_csv(f), n)}} : TRUE

\* docs/index.html: absent, or the page last written (whole = FALSE when the write
\* failed part-way)
SnapAbsent == [exists |-> FALSE, last_ts |-> <<>>, table |-> NoCsvYet, now |-> <<>>, whole |-> TRUE]
Snap(ts, tb, nw, wh) == [exists |-> TRUE, last_ts |-> ts, table |-> tb, now |-> nw, whole |-> wh]

\* ------------------------------------------------------------------- state
Procs == {1, 2}

VARIABLES
    clock,      \* the wall clock: half minutes after 09:30:30
    store,      \* docs/data/pv_log.csv
    snapshot,   \* docs/index.html
    loc,        \* per process: where run_once stands, and its local variables
    left,       \* per process: runs the scheduler will still start
    appended,   \* history: the rows whose to_csv completed, in order
    torn,       \* history: a to_csv has failed after it began to rewrite the file
    version,    \* history: number of completed to_csv calls
    arg,        \* a parser called on its own: its argument
    ret         \* a parser called on its own: <<>> before the call, <<result>> after it

vars == <<clock, store, snapshot, loc, left, appended, torn, version, arg, ret>>

EnvNone == [USERNAME |-> NoneT, PV_USERNAME |-> NoneT, PASSWORD |-> NoneT, PV_PASSWORD |-> NoneT, METRIC_SELECTORS |-> NoneT]

InitLoc ==
    [pc |-> "idle", env |-> EnvNone, exit |-> "", cfg |-> CfgNone,
     pw |-> "off", browser |-> "none", context |-> "none", page |-> FALSE,
     exc |-> "", failedAt |-> "", wait |-> "", waited |-> <<>>,
     dom |-> <<>>, i |-> 0, data |-> <<>>, queried |-> <<>>,
     scrape |-> NoneD, row |-> RowNone, exists |-> FALSE, df |-> DfNone,
     readVer |-> 0,     \* history: the version of the store this run decided on

     last_ts |-> <<>>, table |-> NoCsvYet, now |-> <<>>, printed |-> 0,
     store0 |-> FileAbsent, snap0 |-> SnapAbsent]     \* history: the files when the run began

InitCommon ==
    /\ clock = 0
    /\ snapshot = SnapAbsent
    /\ loc = [p \in Procs |-> InitLoc]
    /\ torn = FALSE

At(p, l) == loc[p].pc = l
Set(p, r) == loc' = [loc EXCEPT ![p] = r]
Goto(p, l) == Set(p, [loc[p] EXCEPT !.pc = l])
Files == <<store, snapshot, appended, torn, version, arg, ret>>

\* ------------------------------------------------------------ run_once
\* the scheduler starts run_once in process p with an environment of envs
StartRun(p, envs) ==
    /\ At(p, "idle") /\ left[p] > 0
    /\ \E e \in envs : Set(p, [InitLoc EXCEPT !.pc = "L98", !.env = e, !.store0 = store, !.snap0 = snapshot])
    /\ left' = [left EXCEPT ![p] = @ - 1]
    /\ UNCHANGED <<clock, Files>>

\* line 98: cfg = load_cfg(); SystemExit leaves run_once
LoadCfg(p) ==
    /\ At(p, "L98")
    /\ LET r == load_cfg(loc[p].env)
       IN  IF r.exit = "" THEN Set(p, [loc[p] EXCEPT !.pc = "L99", !.cfg = r.cfg])
           ELSE Set(p, [loc[p] EXCEPT !.pc = "exit", !.exit = r.exit])
    /\ UNCHANGED <<clock, left, Files>>

\* line 99: with sync_playwright() as p
EnterPlaywright(p) ==
    /\ At(p, "L99")
    /\ Set(p, [loc[p] EXCEPT !.pc = "L100", !.pw = "started"])
    /\ UNCHANGED <<clock, left, Files>>

\* line 100: browser = p.chromium.launch(headless=True)
Launch(p) ==
    /\ At(p, "L100")
    /\ Set(p, [loc[p] EXCEPT !.pc = "L101", !.browser = "open"])
    /\ UNCHANGED <<clock, left, Files>>

\* line 101: context = browser.new_context()
NewContext(p) ==
    /\ At(p, "L101")
    /\ Set(p, [loc[p] EXCEPT !.pc = "L102", !.context = "open"])
    /\ UNCHANGED <<clock, left, Files>>

\* line 102: page = context.new_page()
NewPage(p) ==
    /\ At(p, "L102")
    /\ Set(p, [loc[p] EXCEPT !.pc = "L104", !.page = TRUE])
    /\ UNCHANGED <<clock, left, Files>>

\* line 104: page.goto(cfg.login_url)
GotoLogin(p) == At(p, "L104") /\ Goto(p, "L105") /\ UNCHANGED <<clock, left, Files>>
\* line 105: page.fill(cfg.us, cfg.username)
FillUsername(p) == At(p, "L105") /\ Goto(p, "L106") /\ UNCHANGED <<clock, left, Files>>
\* line 106: page.fill(cfg.ps, cfg.password)
FillPassword(p) == At(p, "L106") /\ Goto(p, "L107") /\ UNCHANGED <<clock, left, Files>>
\* line 107: page.click(cfg.sb)
ClickSubmit(p) == At(p, "L107") /\ Goto(p, "L108") /\ UNCHANGED <<clock, left, Files>>
\* line 108: page.wait_for_load_state("networkidle")
WaitNetworkIdle(p) == At(p, "L108") /\ Goto(p, "L109") /\ UNCHANGED <<clock, left, Files>>
\* a faulty variant of GotoDashboard (the formulas that depend on GotoDashboard must reject it): the dashboard redirects to the login, which is done again
GotoDashboard_relogin(p) == At(p, "L109") /\ Goto(p, "L104") /\ UNCHANGED <<clock, left, Files>>
\* line 109: page.goto(cfg.dashboard_url)
GotoDashboard(p) == At(p, "L109") /\ Goto(p, "L111") /\ UNCHANGED <<clock, left, Files>>

\* a faulty variant of WaitSelector (the formulas that depend on WaitSelector must reject it): no except clause, PWTimeout propagates
WaitSelector_fatal(p) ==
    /\ At(p, "L111")
    /\ \/ Set(p, [loc[p] EXCEPT !.pc = "L114", !.wait = "ready", !.waited = loc[p].cfg.sels[Len(loc[p].cfg.sels)]])
       \/ Set(p, [loc[p] EXCEPT !.pc = "L122", !.wait = "timeout", !.waited = loc[p].cfg.sels[Len(loc[p].cfg.sels)],
                                !.exc = "L111", !.failedAt = "L111"])
    /\ UNCHANGED <<clock, left, Files>>

\* lines 110-113: wait_for_selector(cfg.sels[-1]); the selector appears, or the wait
\* raises PWTimeout, which is caught and dropped
WaitSelector(p) ==
    /\ At(p, "L111")
    /\ \E o \in {"ready", "timeout"} :
         Set(p, [loc[p] EXCEPT !.pc = "L114", !.wait = o, !.waited = loc[p].cfg.sels[Len(loc[p].cfg.sels)]])
    /\ UNCHANGED <<clock, left, Files>>

\* line 114: time.sleep(5); the page is then as it will be read, one of doms
Sleep(p, doms) ==
    /\ At(p, "L114")
    /\ \E d \in doms : Set(p, [loc[p] EXCEPT !.pc = "L116", !.dom = d])
    /\ UNCHANGED <<clock, left, Files>>

\* lines 115-117: data = {}; the time label
QueryTime(p) ==
    /\ At(p, "L116")
    /\ LET sel == loc[p].cfg.time_sel
           t == ElemText(query_selector(loc[p].dom, sel))
       IN  IF t = RaiseT
           THEN Set(p, [loc[p] EXCEPT !.pc = "L122", !.exc = "L117", !.failedAt = "L117", !.queried = Append(@, sel)])
           ELSE Set(p, [loc[p] EXCEPT !.pc = "L118", !.i = 1, !.data = DictSet(<<>>, "page_time", t), !.queried = Append(@, sel)])
    /\ UNCHANGED <<clock, left, Files>>

\* a faulty variant of QueryMetric (the formulas that depend on QueryMetric must reject it): the selectors are taken from the fifth down to the first
QueryMetric_reversed(p) ==
    /\ At(p, "L118")
    /\ LET i == loc[p].i
           sel == loc[p].cfg.sels[Len(Labels) + 1 - i]
           t == ElemText(query_selector(loc[p].dom, sel))
           last == i = Len(Labels) \/ i = Len(loc[p].cfg.sels)
       IN  IF t = RaiseT
           THEN Set(p, [loc[p] EXCEPT !.pc = "L122", !.exc = "L120", !.failedAt = "L120", !.queried = Append(@, sel)])
           ELSE Set(p, [loc[p] EXCEPT !.pc = IF last THEN "L122" ELSE "L118", !.i = i + 1,
                                      !.data = DictSet(@, Labels[i], t), !.queried = Append(@, sel)])
    /\ UNCHANGED <<clock, left, Files>>

\* lines 118-120: one turn of the loop over zip(labels, cfg.sels)
QueryMetric(p) ==
    /\ At(p, "L118")
    /\ LET i == loc[p].i
           sel == loc[p].cfg.sels[i]
           t == ElemText(query_selector(loc[p].dom, sel))
           last == i = Len(Labels) \/ i = Len(loc[p].cfg.sels)
       IN  IF t = RaiseT
           THEN Set(p, [loc[p] EXCEPT !.pc = "L122", !.exc = "L120", !.failedAt = "L120", !.queried = Append(@, sel)])
           ELSE Set(p, [loc[p] EXCEPT !.pc = IF last THEN "L122" ELSE "L118", !.i = i + 1,
                                      !.data = DictSet(@, Labels[i], t), !.queried = Append(@, sel)])
    /\ UNCHANGED <<clock, left, Files>>

\* line 122 (finally): context.close()
CloseContext(p) ==
    /\ At(p, "L122")
    /\ Set(p, [loc[p] EXCEPT !.pc = "L123", !.context = "closed"])
    /\ UNCHANGED <<clock, left, Files>>

\* a faulty variant of CloseBrowser (the formulas that depend on CloseBrowser must reject it): the finally block ends without browser.close()
CloseBrowser_skip(p) ==
    /\ At(p, "L123")
    /\ Goto(p, "L124")
    /\ UNCHANGED <<clock, left, Files>>

\* line 123 (finally): browser.close()
CloseBrowser(p) ==
    /\ At(p, "L123")
    /\ Set(p, [loc[p] EXCEPT !.pc = "L124", !.browser = "closed"])
    /\ UNCHANGED <<clock, left, Files>>

\* a faulty variant of ExitPlaywright (the formulas that depend on ExitPlaywright must reject it): the exception is swallowed (a bare except around the scrape)
ExitPlaywright_swallow(p) ==
    /\ At(p, "L124")
    /\ Set(p, [loc[p] EXCEPT !.pc = "L125", !.pw = "stopped"])
    /\ UNCHANGED <<clock, left, Files>>

\* the end of the with block: sync_playwright's exit; a pending exception then
\* leaves run_once
ExitPlaywright(p) ==
    /\ At(p, "L124")
    /\ Set(p, [loc[p] EXCEPT !.pc = IF loc[p].exc = "" THEN "L125" ELSE "aborted", !.pw = "stopped"])
    /\ UNCHANGED <<clock, left, Files>>

\* line 125: scrape = now truncated to the minute (time has passed since the last reading)
ScrapeNow(p) ==
    /\ At(p, "L125")
    /\ \E c \in clock..MaxClock :
         /\ clock' = c
         /\ Set(p, [loc[p] EXCEPT !.pc = "L126", !.scrape = TruncMinute(Now(c))])
    /\ UNCHANGED <<left, Files>>

\* lines 126-135: the row; an exception of a parser leaves run_once
BuildRow(p) ==
    /\ At(p, "L126")
    /\ LET r == make_row(loc[p].data, loc[p].scrape)
       IN  IF RowRaises(r) THEN Set(p, [loc[p] EXCEPT !.pc = "aborted", !.failedAt = "L126"])
           ELSE Set(p, [loc[p] EXCEPT !.pc = "L136", !.row = r])
    /\ UNCHANGED <<clock, left, Files>>

\* line 136: if cfg.data_csv.exists()
ExistsCheck(p) ==
    /\ At(p, "L136")
    /\ Set(p, [loc[p] EXCEPT !.pc = IF store.exists THEN "L137" ELSE "L140", !.exists = store.exists, !.readVer = version])
    /\ UNCHANGED <<clock, left, Files>>

\* lines 137-138: read the file and put the row after its rows; read_csv raises on a
\* file of zero bytes
ReadCsv(p) ==
    /\ At(p, "L137")
    /\ IF store.exists /\ store.header # <<>>
       THEN Set(p, [loc[p] EXCEPT !.pc = "L141", !.df = concat(read_csv(store), DataFrame1(loc[p].row)), !.readVer = version])
       ELSE Set(p, [loc[p] EXCEPT !.pc = "aborted", !.failedAt = "L137"])
    /\ UNCHANGED <<clock, left, Files>>

\* line 140: df = pd.DataFrame([row])
NewFrame(p) ==
    /\ At(p, "L140")
    /\ Set(p, [loc[p] EXCEPT !.pc = "L141", !.df = DataFrame1(loc[p].row)])
    /\ UNCHANGED <<clock, left, Files>>

\* a faulty variant of WriteCsv (the formulas that depend on WriteCsv must reject it): the row is appended to the file as it is when written (mode "a")
WriteCsv_append(p) ==
    /\ At(p, "L141")
    /\ store' = IF store.exists /\ store.header # <<>> THEN to_csv(concat(read_csv(store), DataFrame1(loc[p].row))) ELSE to_csv(DataFrame1(loc[p].row))
    /\ appended' = Append(appended, loc[p].row)
    /\ version' = version + 1
    /\ Goto(p, "L142")
    /\ UNCHANGED <<clock, left, snapshot, torn, arg, ret>>

\* line 141: df.to_csv(cfg.data_csv, index=False) rewrites the whole file
WriteCsv(p) ==
    /\ At(p, "L141")
    /\ store' = to_csv(loc[p].df)
    /\ appended' = Append(appended, loc[p].row)
    /\ version' = version + 1
    /\ Goto(p, "L142")
    /\ UNCHANGED <<clock, left, snapshot, torn, arg, ret>>

\* line 142: print("OK:", row)
PrintOk(p) ==
    /\ At(p, "L142")
    /\ Set(p, [loc[p] EXCEPT !.pc = "L64", !.printed = @ + 1])
    /\ UNCHANGED <<clock, left, Files>>

\* a faulty variant of RenderRead (the formulas that depend on RenderRead must reject it): the page is made from the log as it was when the run began
RenderRead_stale(p) ==
    /\ At(p, "L64")
    /\ LET r == snapshot_parts(loc[p].store0, max_rows)
       IN  IF r.raises THEN Set(p, [loc[p] EXCEPT !.pc = "aborted", !.failedAt = "L69"])
           ELSE Set(p, [loc[p] EXCEPT !.pc = "L74", !.last_ts = r.last_ts, !.table = r.table])
    /\ UNCHANGED <<clock, left, Files>>

\* line 144, write_html_snapshot lines 64-72: read the log
RenderRead(p) ==
    /\ At(p, "L64")
    /\ LET r == snapshot_parts(store, max_rows)
       IN  IF r.raises THEN Set(p, [loc[p] EXCEPT !.pc = "aborted", !.failedAt = "L69"])
           ELSE Set(p, [loc[p] EXCEPT !.pc = "L74", !.last_ts = r.last_ts, !.table = r.table])
    /\ UNCHANGED <<clock, left, Files>>

\* line 74: now = the wall clock, formatted
RenderNow(p) ==
    /\ At(p, "L74")
    /\ \E c \in clock..MaxClock :
         /\ clock' = c
         /\ Set(p, [loc[p] EXCEPT !.pc = "L95", !.now = strftime(Now(c))])
    /\ UNCHANGED <<left, Files>>

\* a faulty variant of RenderWrite (the formulas that depend on RenderWrite must reject it): the log is removed once the page is written
RenderWrite_clobber(p) ==
    /\ At(p, "L95")
    /\ snapshot' = Snap(loc[p].last_ts, loc[p].table, loc[p].now, TRUE)
    /\ store' = FileAbsent
    /\ Goto(p, "done")
    /\ UNCHANGED <<clock, left, appended, torn, version, arg, ret>>

\* line 95: out_html.write_text(html)
RenderWrite(p) ==
    /\ At(p, "L95")
    /\ snapshot' = Snap(loc[p].last_ts, loc[p].table, loc[p].now, TRUE)
    /\ Goto(p, "done")
    /\ UNCHANGED <<clock, left, store, appended, torn, version, arg, ret>>

\* the process ends: run_once returned, or an exception or SystemExit left it
ProcessExit(p) ==
    /\ loc[p].pc \in {"done", "aborted", "exit"}
    /\ Set(p, InitLoc)
    /\ UNCHANGED <<clock, left, Files>>

\* ------------------------------------------------------------------ failures
\* Any call into the browser, pandas or the file system may raise.  failedAt keeps the
\* line of the first failure of the run, exc the exception that is propagating.
Raise(p, to) == Set(p, [loc[p] EXCEPT !.pc = to, !.exc = loc[p].pc, !.failedAt = IF @ = "" THEN loc[p].pc ELSE @])

\* lines 100-102 raise: they stand before the try, so only the with block is left
FailBeforeTry(p) ==
    /\ loc[p].pc \in {"L100", "L101", "L102"}
    /\ Raise(p, "L124")
    /\ UNCHANGED <<clock, left, Files>>

\* lines 104-120 raise (anything but the PWTimeout of line 111): the finally runs
FailInTry(p) ==
    /\ loc[p].pc \in {"L104", "L105", "L106", "L107", "L108", "L109", "L111", "L116", "L118"}
    /\ Raise(p, "L122")
    /\ UNCHANGED <<clock, left, Files>>

\* context.close() or browser.close() raises: the rest of the finally is skipped
FailInFinally(p) ==
    /\ loc[p].pc \in {"L122", "L123"}
    /\ Raise(p, "L124")
    /\ UNCHANGED <<clock, left, Files>>

\* pd.read_csv raises (line 137)
FailReadCsv(p) ==
    /\ At(p, "L137")
    /\ Raise(p, "aborted")
    /\ UNCHANGED <<clock, left, Files>>

\* what a to_csv that fails can leave of the file f it was writing: nothing (the file
\* was opened and truncated), or the header and some of the lines
Torn(f) == {File(<<>>, <<>>)} \cup {File(f.header, SubSeq(f.lines, 1, k)) : k \in 0..(Len(f.lines) - 1)}

\* df.to_csv raises (line 141): before it touched the file, or part-way
FailWriteCsv(p) ==
    /\ At(p, "L141")
    /\ \E f \in {store} \cup Torn(to_csv(loc[p].df)) :
         /\ store' = f
         /\ torn' = (torn \/ f # store)
    /\ Raise(p, "aborted")
    /\ UNCHANGED <<clock, left, snapshot, appended, version, arg, ret>>

\* write_html_snapshot raises while it reads the log (lines 63-72)
FailRenderRead(p) ==
    /\ At(p, "L64")
    /\ Raise(p, "aborted")
    /\ UNCHANGED <<clock, left, Files>>

\* out_html.write_text raises (line 95): before it touched the page, or part-way
FailRenderWrite(p) ==
    /\ At(p, "L95")
    /\ snapshot' \in {snapshot, Snap(loc[p].last_ts, loc[p].table, loc[p].now, FALSE)}
    /\ Raise(p, "aborted")
    /\ UNCHANGED <<clock, left, store, appended, torn, version, arg, ret>>

\* -------------------------------------------------------------------- inputs
Env(u, pvu, pw, pvpw, ms) == [USERNAME |-> u, PV_USERNAME |-> pvu, PASSWORD |-> pw, PV_PASSWORD |-> pvpw, METRIC_SELECTORS |-> ms]
EnvDefault == Env(NoneT, SomeT(<<"u">>), NoneT, SomeT(<<"p">>), NoneT)
EnvSix == Env(SomeT(<<"u">>), NoneT, SomeT(<<"p">>), NoneT,
              SomeT(SelSell \o <<",", " ">> \o SelBuy \o <<" ", ",">> \o SelCons \o <<",">> \o SelSelf \o <<",">> \o SelGen \o <<",">> \o SelExtra))
EnvNoUser == Env(NoneT, NoneT, NoneT, SomeT(<<"p">>), NoneT)
EnvNoPassword == Env(NoneT, SomeT(<<"u">>), NoneT, NoneT, NoneT)
EnvEmptyUser == Env(SomeT(<<>>), SomeT(<<"u">>), NoneT, SomeT(<<"p">>), NoneT)
EnvEmptyPassword == Env(NoneT, SomeT(<<"u">>), SomeT(<<>>), SomeT(<<"p">>), NoneT)
EnvFourSelectors == Env(NoneT, SomeT(<<"u">>), NoneT, SomeT(<<"p">>), SomeT(SelSell \o <<",">> \o SelBuy \o <<",">> \o SelCons \o <<",">> \o SelSelf))
EnvNoSelectors == Env(NoneT, SomeT(<<"u">>), NoneT, SomeT(<<"p">>), SomeT(<<>>))
Envs == {EnvDefault, EnvSix, EnvNoUser, EnvNoPassword, EnvEmptyUser, EnvEmptyPassword, EnvFourSelectors, EnvNoSelectors}

TxtAsOf == SomeT(<<"2", "0", "2", "4", "/", "0", "5", "/", "0", "1", " ", "0", "9", ":", "3", "0", " ", "U73FE", "U5728">>)
TxtDashed == SomeT(<<"2", "0", "2", "4", "-", "0", "5", "-", "0", "1", " ", "0", "9", ":", "3", "1">>)
TxtNotADate == SomeT(<<"n", "o", "t", " ", "a", " ", "d", "a", "t", "e">>)
TxtBadDay == SomeT(<<"2", "0", "2", "4", "/", "0", "2", "/", "3", "0", " ", "1", "0", ":", "0", "0">>)
TxtThousands == SomeT(<<"1", ",", "2", "3", "4", ".", "5", " ", "k", "W", "h">>)
TxtDecimalComma == SomeT(<<"1", "2", ",", "5">>)
TxtDashes == SomeT(<<"-", "-">>)
TxtUnit == SomeT(<<"3", ".", "4", "k", "W", "h">>)
TxtPadded == SomeT(<<" ", "7", " ">>)
TxtNegative == SomeT(<<"-", "3", ".", "2">>)
TxtBlank == SomeT(<<" ">>)

Dom(t, a, b, c, d, e) ==
    [s \in {TimeSel, SelSell, SelBuy, SelCons, SelSelf, SelGen, SelExtra} |->
        IF s = TimeSel THEN t ELSE IF s = SelSell THEN a ELSE IF s = SelBuy THEN b ELSE IF s = SelCons THEN c
        ELSE IF s = SelSelf THEN d ELSE IF s = SelGen THEN e ELSE SomeT(<<"9">>)]

\* the page of the specification's end-to-end example
DomExample == Dom(TxtAsOf, SomeT(<<"1", ".", "2">>), SomeT(<<"0">>), TxtUnit, SomeT(<<"0", ".", "5">>), SomeT(<<"4", ".", "1">>))
\* a half-loaded page
DomPartial == Dom(NoneT, TxtThousands, TxtDashes, NoneT, TxtPadded, TxtDecimalComma)
Scenarios == {DomExample, DomPartial}

\* every page in which each element is missing or present, and each metric that is
\* present is without a number or with one
MetricTexts == {NoneT, TxtDashes, TxtUnit}
AllDoms == {Dom(t, a, b, c, d, e) : t \in {NoneT, TxtAsOf}, a \in MetricTexts, b \in MetricTexts, c \in MetricTexts, d \in MetricTexts, e \in MetricTexts}

\* the example page with each kind of time label: none, empty, blank, no date, a day
\* that does not exist, and the two accepted formats
TimeTexts == {NoneT, SomeT(<<>>), TxtBlank, TxtNotADate, TxtBadDay, TxtAsOf, TxtDashed}
TimeDoms == {Dom(t, SomeT(<<"1", ".", "2">>), SomeT(<<"0">>), TxtUnit, SomeT(<<"0", ".", "5">>), SomeT(<<"4", ".", "1">>)) : t \in TimeTexts}

\* ------------------------------------------------------------ specifications
NoCall == arg = NoneT /\ ret = <<>>
Run(p, envs, doms) ==
    \/ StartRun(p, envs)
    \/ LoadCfg(p)
    \/ EnterPlaywright(p)
    \/ Launch(p)
    \/ NewContext(p)
    \/ NewPage(p)
    \/ GotoLogin(p)
    \/ FillUsername(p)
    \/ FillPassword(p)
    \/ ClickSubmit(p)
    \/ WaitNetworkIdle(p)
    \/ GotoDashboard(p)
    \/ WaitSelector(p)
    \/ Sleep(p, doms)
    \/ QueryTime(p)
    \/ QueryMetric(p)
    \/ CloseContext(p)
    \/ CloseBrowser(p)
    \/ ExitPlaywright(p)
    \/ ScrapeNow(p)
    \/ BuildRow(p)
    \/ ExistsCheck(p)
    \/ ReadCsv(p)
    \/ NewFrame(p)
    \/ WriteCsv(p)
    \/ PrintOk(p)
    \/ RenderRead(p)
    \/ RenderNow(p)
    \/ RenderWrite(p)
    \/ ProcessExit(p)

Fail(p) ==
    \/ FailBeforeTry(p)
    \/ FailInTry(p)
    \/ FailInFinally(p)
    \/ FailReadCsv(p)
    \/ FailWriteCsv(p)
    \/ FailRenderRead(p)
    \/ FailRenderWrite(p)

\* Sequential runs: one process, run after run, against a store that starts absent.
Init ==
    /\ InitCommon /\ NoCall
    /\ store = FileAbsent /\ appended = <<>> /\ version = 0
    /\ left = [p \in Procs |-> IF p = 1 THEN MaxRuns ELSE 0]
Next == Run(1, Envs, Scenarios) \/ Fail(1)
Spec == Init /\ [][Next]_vars

\* the store after one earlier run that read the example page at clock position 0
PriorRow == make_row([page_time |-> TxtAsOf, sell |-> SomeT(<<"1", ".", "2">>), buy |-> SomeT(<<"0">>), cons |-> TxtUnit, self |-> SomeT(<<"0", ".", "5">>), gen |-> SomeT(<<"4", ".", "1">>)], TruncMinute(Now(0)))
PriorStore == to_csv(DataFrame1(PriorRow))
InitStore ==
    \/ store = FileAbsent /\ appended = <<>> /\ version = 0
    \/ store = PriorStore /\ appended = <<PriorRow>> /\ version = 1

\* Two runs that the scheduler lets overlap, one in each process, no failure.
InitConc == InitCommon /\ NoCall /\ InitStore /\ left = [p \in Procs |-> 1]
NextConc == Run(1, {EnvDefault}, {DomExample}) \/ Run(2, {EnvDefault}, {DomPartial})
SpecConc == InitConc /\ [][NextConc]_vars

\* One run on every page of AllDoms, no failure of the browser or the file system.
InitDegrade == InitCommon /\ NoCall /\ InitStore /\ left = [p \in Procs |-> IF p = 1 THEN 1 ELSE 0]
NextDegrade == Run(1, {EnvDefault}, AllDoms)
SpecDegrade == InitDegrade /\ [][NextDegrade]_vars

\* One run on every page of TimeDoms, no failure of the browser or the file system.
NextTime == Run(1, {EnvDefault}, TimeDoms)
SpecTime == InitDegrade /\ [][NextTime]_vars

\* The parsers called on their own, on every text of at most MaxLen characters of
\* Alphabet and on the examples.
Alphabet == {"1", "5", ",", ".", "-", "k"}
RECURSIVE Texts(_)
Texts(n) == IF n = 0 THEN {<<>>} ELSE Texts(n - 1) \cup {Append(t, c) : t \in Texts(n - 1), c \in Alphabet}
ParseInputs == {NoneT, TxtThousands, TxtDecimalComma, TxtDashes, TxtUnit, TxtPadded, TxtNegative, TxtBlank, TxtAsOf, TxtDashed, TxtNotADate, TxtBadDay}
                 \cup {SomeT(t) : t \in Texts(MaxLen)}

Call_to_f ==
    /\ ret = <<>>
    /\ ret' = <<to_f(arg)>>
    /\ UNCHANGED <<clock, store, snapshot, loc, left, appended, torn, version, arg>>

Call_parse_time ==
    /\ ret = <<>>
    /\ ret' = <<parse_time(arg)>>
    /\ UNCHANGED <<clock, store, snapshot, loc, left, appended, torn, version, arg>>

InitParse ==
    /\ InitCommon
    /\ store = FileAbsent /\ appended = <<>> /\ version = 0
    /\ left = [p \in Procs |-> 0]
    /\ arg \in ParseInputs /\ ret = <<>>
NextParse == Call_to_f \/ Call_parse_time
SpecParse == InitParse /\ [][NextParse]_vars

\* write_html_snapshot called on its own (line 144 reached) on a store that is absent,
\* of zero bytes, or holds the header and n rows.
LineOf(i) ==
    <<isoformat(Now(2 * i - 1)), isoformat(Now(2 * i)), FormatFloat(Norm(i, 1)),
      IF i % 3 = 0 THEN <<>> ELSE <<"0", ".", "0">>, <<>>, FormatFloat(Norm(i, 0)), <<>> >>
StoreOf(n) == File(Columns, [i \in 1..n |-> LineOf(i)])
RenderSizes == (0..MaxSmallRows) \cup ((max_rows - 3)..(max_rows + 3)) \cup {MaxStoreRows}
RenderStores == {FileAbsent, File(<<>>, <<>>)} \cup {StoreOf(n) : n \in RenderSizes}

InitRender ==
    /\ clock = 0 /\ snapshot = SnapAbsent /\ torn = FALSE /\ NoCall
    /\ store \in RenderStores /\ appended = <<>> /\ version = 0
    /\ left = [p \in Procs |-> 0]
    /\ loc = [p \in Procs |-> IF p = 1 THEN [InitLoc EXCEPT !.pc = "L64", !.store0 = store] ELSE InitLoc]
NextRender == RenderRead(1) \/ RenderNow(1) \/ RenderWrite(1)
SpecRender == InitRender /\ [][NextRender]_vars

\* write_html_snapshot called again on the same files: left[p] counts the calls still
\* to come, snap0 keeps the page the call before wrote
Rerender(p) ==
    /\ At(p, "done") /\ left[p] > 0
    /\ Set(p, [loc[p] EXCEPT !.pc = "L64", !.snap0 = snapshot])
    /\ left' = [left EXCEPT ![p] = @ - 1]
    /\ UNCHANGED <<clock, Files>>
InitRender2 ==
    /\ clock = 0 /\ snapshot = SnapAbsent /\ torn = FALSE /\ NoCall
    /\ store \in RenderStores /\ appended = <<>> /\ version = 0
    /\ left = [p \in Procs |-> IF p = 1 THEN 1 ELSE 0]
    /\ loc = [p \in Procs |-> IF p = 1 THEN [InitLoc EXCEPT !.pc = "L64", !.store0 = store] ELSE InitLoc]
NextRender2 == RenderRead(1) \/ RenderNow(1) \/ RenderWrite(1) \/ Rerender(1)
SpecRender2 == InitRender2 /\ [][NextRender2]_vars

\* ==================================================================== claims
IsPrefix(a, b) == Len(a) <= Len(b) /\ SubSeq(b, 1, Len(a)) = a
LastLine(f) == f.lines[Len(f.lines)]
\* run_once of process p has returned from to_csv (line 141)
Wrote(p) == loc[p].pc \in {"L142", "L64", "L74", "L95", "done"}
AfterWith == {"L125", "L126", "L136", "L137", "L140", "L141", "L142", "L64", "L74", "L95", "done", "aborted"}
TryLines == {"L104", "L105", "L106", "L107", "L108", "L109", "L111", "L116", "L117", "L118", "L120"}
MetricSels == <<SelSell, SelBuy, SelCons, SelSelf, SelGen>>
HasDigit(t) == \E i \in 1..Len(t) : IsDigit(t[i])

\* The statement of C1 on the sequential runs of process 1.
AdditiveStore ==
    /\ appended = <<>> => store = FileAbsent
    /\ appended # <<>> => store.exists /\ store.header = Columns /\ read_csv(store).rows = appended
    /\ loc[1].pc # "idle" =>
          /\ loc[1].store0.exists => store.exists /\ store.header = loc[1].store0.header
          /\ IsPrefix(loc[1].store0.lines, store.lines)
    /\ loc[1].pc = "done" =>
          /\ Len(store.lines) = Len(loc[1].store0.lines) + 1
          /\ read_csv(store).rows[Len(store.lines)] = loc[1].row

C2_AbortLeavesStore ==
    \A p \in Procs :
        loc[p].failedAt \in TryLines =>
            /\ loc[p].pc \in {"L122", "L123", "L124", "aborted"}
            /\ store = loc[p].store0 /\ snapshot = loc[p].snap0
            /\ loc[p].row = RowNone /\ loc[p].printed = 0

\* a second run aborted in the middle of the extraction loop
C2_Witness == loc[1].pc = "aborted" /\ loc[1].failedAt = "L118" /\ "sell" \in DOMAIN loc[1].data /\ loc[1].store0.exists

\* C3 as stated: once a run that launched the browser has left the with block (on its
\* way to the parsing, or with an exception), context.close() and browser.close() have
\* both been called.
C3_Released ==
    \A p \in Procs :
        loc[p].pc \in AfterWith /\ loc[p].browser # "none" => loc[p].browser = "closed" /\ loc[p].context = "closed"

\* the username and password the environment resolves to, and the number of entries of
\* its selector list, stated without load_cfg
EnvUser(e) == IF ~e.USERNAME.nil THEN e.USERNAME.v ELSE IF ~e.PV_USERNAME.nil THEN e.PV_USERNAME.v ELSE <<>>
EnvPassword(e) == IF ~e.PASSWORD.nil THEN e.PASSWORD.v ELSE IF ~e.PV_PASSWORD.nil THEN e.PV_PASSWORD.v ELSE <<>>
EnvEntries(e) == IF e.METRIC_SELECTORS.nil THEN 5 ELSE 1 + Cardinality({i \in 1..Len(e.METRIC_SELECTORS.v) : e.METRIC_SELECTORS.v[i] = ","})
ConfigBad(e) == EnvUser(e) = <<>> \/ EnvPassword(e) = <<>> \/ EnvEntries(e) < 5

\* C4: a run whose username or password is empty, or whose selector list has fewer than
\* 5 entries, ends in SystemExit before sync_playwright is entered, with the store and
\* the snapshot as they were; Playwright is started and a browser launched only under a
\* configuration with both credentials and at least 5 selectors, and such a
\* configuration never ends in SystemExit.
C4_ConfigFirst ==
    \A p \in Procs :
        /\ loc[p].pc \notin {"idle", "L98"} /\ ConfigBad(loc[p].env) =>
              /\ loc[p].pc = "exit" /\ loc[p].pw = "off" /\ loc[p].browser = "none"
              /\ store = loc[p].store0 /\ snapshot = loc[p].snap0
        /\ loc[p].pw # "off" \/ loc[p].browser # "none" => ~ConfigBad(loc[p].env)
        /\ loc[p].pc = "exit" => ConfigBad(loc[p].env)

\* a second run stopped by a list of four selectors
C4_Witness == loc[1].pc = "exit" /\ loc[1].exit = "selectors" /\ loc[1].env = EnvFourSelectors /\ loc[1].store0.exists

\* C5: when two overlapping runs have both written, and both had decided on the same
\* version of the store (each read it before the other rewrote it), the store holds
\* what they read and the row of the later writer only: one row is lost.  When the
\* second read after the first wrote, both rows are there.
C5_LostUpdate ==
    Wrote(1) /\ Wrote(2) =>
        LET n == Len(appended)
        IN  IF loc[1].readVer = loc[2].readVer
            THEN Len(store.lines) = n - 1 /\ read_csv(store).rows = SubSeq(appended, 1, n - 2) \o <<appended[n]>>
            ELSE read_csv(store).rows = appended

\* both runs completed and printed their confirmation, and the store misses one row
C5_Witness ==
    /\ loc[1].pc = "done" /\ loc[2].pc = "done" /\ loc[1].printed = 1 /\ loc[2].printed = 1
    /\ Len(appended) = Len(store.lines) + 1

\* digits, one comma, digits
IsDecimalComma(t) == \E i \in 2..(Len(t) - 1) : t[i] = "," /\ \A j \in (1..Len(t)) \ {i} : IsDigit(t[j])
CommaAsPoint(t) == [i \in 1..Len(t) |-> IF t[i] = "," THEN "." ELSE t[i]]

\* C6 as stated: to_f reads a decimal comma as a decimal point ("12,5" is 12.5, and
\* so for every digits-comma-digits text), strips the thousands comma of "1,234.5 kWh"
\* (1234.5), and gives None for None and for a text without a digit ("", "--").
C6_DecimalComma ==
    ret # <<>> /\ "m" \in DOMAIN ret[1] =>
        /\ arg = TxtDecimalComma => ret[1] = SomeF(125, 1)
        /\ arg = TxtThousands => ret[1] = SomeF(12345, 1)
        /\ arg.nil \/ ~HasDigit(arg.v) => ret[1] = NoneF
        /\ ~arg.nil /\ IsDecimalComma(arg.v) => ret[1] = FloatOf(CommaAsPoint(arg.v))

\* C7: the table write_html_snapshot renders from a store of n rows holds the last
\* min(n, 500) rows of the store, in the store's order.
C7_LastRows ==
    loc[1].pc = "done" /\ store.exists /\ store.header # <<>> =>
        LET n == Len(store.lines)
            k == IF n < 500 THEN n ELSE 500
        IN  /\ snapshot.table.kind = "table"
            /\ Len(snapshot.table.rows) = k
            /\ \A i \in 1..k : snapshot.table.rows[i] = store.lines[n - k + i]

\* a store of 600 rows was rendered: rows 101..600
C7_Witness ==
    /\ loc[1].pc = "done" /\ Len(store.lines) = 600
    /\ Len(snapshot.table.rows) = 500 /\ snapshot.table.rows[1] = store.lines[101] /\ snapshot.table.rows[500] = store.lines[600]

HeaderOnly(f) == f.exists /\ f.header = Columns /\ f.lines = <<>>

\* C8 as stated: rendering an absent store and rendering a store without rows both
\* succeed, with the placeholder label and the "no CSV yet" message in the table area.
C8_Original ==
    ~store.exists \/ HeaderOnly(store) =>
        /\ loc[1].pc # "aborted"
        /\ loc[1].pc = "done" => snapshot.last_ts = Placeholder /\ snapshot.table = NoCsvYet

\* C8 amended: rendering an absent store and rendering a store that holds the header
\* line and no rows both succeed with the placeholder label; the table area shows the
\* "no CSV yet" message for the absent store only, and for the header-only store the
\* table (its header, no rows).
C8_AbsentOrEmpty ==
    /\ ~store.exists \/ HeaderOnly(store) =>
          /\ loc[1].pc # "aborted"
          /\ loc[1].pc = "done" => snapshot.whole /\ snapshot.last_ts = Placeholder
    /\ ~store.exists /\ loc[1].pc = "done" => snapshot.table = NoCsvYet
    /\ HeaderOnly(store) /\ loc[1].pc = "done" => snapshot.table = [kind |-> "table", columns |-> Columns, rows |-> <<>>]

\* the header-only store was rendered
C8_Witness == loc[1].pc = "done" /\ HeaderOnly(store) /\ snapshot.table.kind = "table" /\ snapshot.last_ts = Placeholder

\* C9: in the row a run has written, scrape_time_jst is a reading of the wall clock cut
\* to the minute; page_time_jst equals it when the page's time label is missing, empty
\* or in neither format (or names a day that does not exist), and is the label's own
\* time when the label is in one of the two formats.
C9_TimeFallback ==
    Wrote(1) =>
        LET line == LastLine(store)
            t == loc[1].dom[TimeSel]
        IN  /\ line[2] = isoformat(loc[1].scrape)
            /\ \E c \in 0..clock : loc[1].scrape = [Now(c) EXCEPT !.S = 0]
            /\ t \in {NoneT, SomeT(<<>>), TxtBlank, TxtNotADate, TxtBadDay} => line[1] = line[2]
            /\ t = TxtAsOf => line[1] = <<"2", "0", "2", "4", "-", "0", "5", "-", "0", "1", "T", "0", "9", ":", "3", "0", "+", "0", "9", ":", "0", "0">>
            /\ t = TxtDashed => line[1] = <<"2", "0", "2", "4", "-", "0", "5", "-", "0", "1", "T", "0", "9", ":", "3", "1", "+", "0", "9", ":", "0", "0">>

\* a run persisted a row for a page whose time label is no date
C9_Witness == loc[1].pc = "done" /\ loc[1].dom[TimeSel] = TxtNotADate /\ LastLine(store)[1] = LastLine(store)[2] /\ clock = 1

\* C10: whatever elements are missing and whatever metric texts hold no number, the run
\* raises nothing and appends exactly one row, in which the cell of a metric is empty
\* when its element was missing or its text had no number, and its value otherwise.
C10_Degrades ==
    /\ loc[1].pc # "aborted"
    /\ loc[1].pc = "done" => loc[1].printed = 1
    /\ Wrote(1) =>
          /\ Len(store.lines) = Len(loc[1].store0.lines) + 1
          /\ \A k \in 1..5 :
                LET el == loc[1].dom[MetricSels[k]]
                    cell == LastLine(store)[2 + k]
                IN  /\ el.nil \/ ~HasDigit(el.v) => cell = <<>>
                    /\ el = TxtUnit => cell = <<"3", ".", "4">>

\* a run completed on a page without time label, without the sell element and with a
\* buy text that holds no number
C10_Witness ==
    /\ loc[1].pc = "done" /\ loc[1].store0.exists
    /\ loc[1].dom[TimeSel] = NoneT /\ loc[1].dom[SelSell] = NoneT /\ loc[1].dom[SelBuy] = TxtDashes /\ loc[1].dom[SelCons] = TxtUnit
    /\ LastLine(store)[3] = <<>> /\ LastLine(store)[4] = <<>> /\ LastLine(store)[5] = <<"3", ".", "4">>

\* C11: the selector wait is for the last configured selector; when it times out the
\* run stands before the settle delay with no exception pending, as it does when the
\* selector appeared, and a run with no other failure is never aborted and appends
\* exactly one row; any other exception of the wait aborts the run, which then leaves
\* the store as it was.
C11_BestEffort ==
    \A p \in Procs :
        /\ loc[p].wait # "" => loc[p].waited = loc[p].cfg.sels[Len(loc[p].cfg.sels)] /\ loc[p].failedAt # "L111"
        /\ loc[p].pc = "L114" => loc[p].wait \in {"ready", "timeout"} /\ loc[p].exc = "" /\ loc[p].failedAt = ""
        /\ loc[p].wait = "timeout" /\ loc[p].failedAt = "" =>
              /\ loc[p].pc \notin {"aborted", "exit"}
              /\ Wrote(p) => Len(store.lines) = Len(loc[p].store0.lines) + 1 /\ LastLine(store) = LastLine(to_csv(DataFrame1(loc[p].row)))
        /\ loc[p].failedAt = "L111" =>
              /\ loc[p].wait = "" /\ loc[p].pc \in {"L122", "L123", "L124", "aborted"}
              /\ store = loc[p].store0 /\ loc[p].row = RowNone

\* a second run whose selector wait timed out completed and appended its row
C11_Witness ==
    /\ loc[1].pc = "done" /\ loc[1].wait = "timeout" /\ loc[1].failedAt = ""
    /\ loc[1].store0.exists /\ Len(store.lines) = 2

\* C12 as stated: a run prints its confirmation at most once and only after its row has
\* been written to the store, and a run that ended with SystemExit or an exception has
\* printed none.
C12_Confirmation ==
    \A p \in Procs :
        /\ loc[p].printed <= 1
        /\ loc[p].printed = 1 =>
              /\ loc[p].row # RowNone /\ appended # <<>> /\ appended[Len(appended)] = loc[p].row
              /\ store.exists /\ store.lines # <<>> /\ LastLine(store) = LastLine(to_csv(DataFrame1(loc[p].row)))
        /\ loc[p].pc \in {"exit", "aborted"} => loc[p].printed = 0

\* The stages of the run state machine, numbered in their order, as sets of positions
\* of run_once.  The settle delay belongs to AWAITING, the finally block closes
\* EXTRACTING, the confirmation belongs to PERSISTING.
StageOf(pc) ==
    CASE pc \in {"L98", "L99", "L100", "L101", "L102"} -> 1             \* INIT
      [] pc \in {"L104", "L105", "L106", "L107", "L108"} -> 2           \* AUTHENTICATING
      [] pc \in {"L109"} -> 3                                           \* NAVIGATING
      [] pc \in {"L111", "L114"} -> 4                                   \* AWAITING
      [] pc \in {"L116", "L118", "L122", "L123", "L124"} -> 5           \* EXTRACTING
      [] pc \in {"L125", "L126"} -> 6                                   \* PARSING
      [] pc \in {"L136", "L137", "L140", "L141", "L142"} -> 7           \* PERSISTING
      [] pc \in {"L64", "L74", "L95"} -> 8                              \* RENDERING
      [] pc \in {"done"} -> 9                                           \* DONE
      [] OTHER -> 0
\* the run stands in a stage: it has begun and neither ended nor is it leaving with an exception
InStage(l) == l.pc \notin {"idle", "exit", "aborted"} /\ l.exc = ""

\* one step of process p keeps its stage or enters the next one; a run that is leaving
\* with an exception, or has ended, enters no stage again
StageStep(p) ==
    LET a == loc[p]
        b == loc'[p]
    IN  /\ a.pc = "idle" => b.pc \in {"idle", "L98"}
        /\ InStage(a) /\ InStage(b) => StageOf(b.pc) \in {StageOf(a.pc), StageOf(a.pc) + 1}
        /\ a.pc # "idle" /\ ~InStage(a) => ~InStage(b)
        /\ a.pc = "done" => b.pc \in {"done", "idle"}

\* C13: every step of a run stays in its stage or enters the next stage of INIT,
\* AUTHENTICATING, NAVIGATING, AWAITING, EXTRACTING, PARSING, PERSISTING, RENDERING,
\* DONE (so no stage is skipped, entered early or entered twice), and a run that is at
\* DONE has written its row to the store and printed its confirmation.
C13_StageOrder ==
    /\ [](\A p \in Procs : loc[p].pc = "done" =>
              /\ loc[p].failedAt = "" /\ loc[p].printed = 1
              /\ appended # <<>> /\ appended[Len(appended)] = loc[p].row)
    /\ [][\A p \in Procs : StageStep(p)]_vars

\* a run has reached DONE after a selector wait that found the selector, on the store
\* of an earlier run
C13_Witness == loc[1].pc = "done" /\ loc[1].wait = "ready" /\ loc[1].store0.exists /\ snapshot.exists /\ snapshot.whole

ExpectedQueries(cfg) == <<cfg.time_sel>> \o SubSeq(cfg.sels, 1, 5)
Trimmed(el) == IF el.nil THEN NoneT ELSE SomeT(Strip(el.v))
\* every statement of lines 115-120 has been executed
ExtractionDone(l) ==
    /\ l.pc \in {"L122", "L123", "L124"} \cup AfterWith
    /\ l.failedAt \notin TryLines \cup {"L100", "L101", "L102"}

\* C15: the selectors queried so far are always a beginning of: the time selector, then
\* the first five configured metric selectors in their order; a sixth or later
\* configured selector is never queried; and once the extraction is complete exactly
\* those six were queried and data has exactly the labels page_time, sell, buy, cons,
\* self, gen, each holding the trimmed text of the element of its selector, or None
\* where there was no element.
C15_QueryOrder ==
    \A p \in Procs :
        LET l == loc[p]
        IN  /\ l.queried # <<>> => IsPrefix(l.queried, ExpectedQueries(l.cfg))
            /\ \A k \in 1..Len(l.queried) : \A j \in 6..Len(l.cfg.sels) : l.queried[k] # l.cfg.sels[j]
            /\ ExtractionDone(l) =>
                  /\ l.queried = ExpectedQueries(l.cfg)
                  /\ DOMAIN l.data = {"page_time", "sell", "buy", "cons", "self", "gen"}
                  /\ l.data["page_time"] = Trimmed(query_selector(l.dom, l.cfg.time_sel))
                  /\ l.data["sell"] = Trimmed(query_selector(l.dom, l.cfg.sels[1]))
                  /\ l.data["buy"] = Trimmed(query_selector(l.dom, l.cfg.sels[2]))
                  /\ l.data["cons"] = Trimmed(query_selector(l.dom, l.cfg.sels[3]))
                  /\ l.data["self"] = Trimmed(query_selector(l.dom, l.cfg.sels[4]))
                  /\ l.data["gen"] = Trimmed(query_selector(l.dom, l.cfg.sels[5]))

\* an extraction completed under six configured selectors, on a page with missing
\* elements and a padded text
C15_Witness ==
    /\ loc[1].pc = "L122" /\ loc[1].failedAt = "" /\ Len(loc[1].cfg.sels) = 6 /\ Len(loc[1].queried) = 6
    /\ loc[1].dom = DomPartial /\ loc[1].data["cons"] = NoneT /\ loc[1].data["self"] = SomeT(<<"7">>)

\* C16: when a run of the sequential runs has returned, docs/index.html is a page
\* written whole from the store as that run left it: its last-updated label is the
\* page_time_jst of the row the run appended, and the last row of its table is that
\* row, which is the last line of the store.
C16_SnapshotFresh ==
    loc[1].pc = "done" =>
        LET line == LastLine(to_csv(DataFrame1(loc[1].row)))
            rows == snapshot.table.rows
        IN  /\ snapshot.exists /\ snapshot.whole /\ snapshot.table.kind = "table"
            /\ snapshot.last_ts = loc[1].row["page_time_jst"].v
            /\ store.lines # <<>> /\ LastLine(store) = line
            /\ rows # <<>> /\ rows[Len(rows)] = line

\* a second run returned: the page shows both rows and the label of the second, which
\* the page before the run did not
C16_Witness ==
    /\ loc[1].pc = "done" /\ loc[1].store0.exists /\ Len(store.lines) = 2 /\ Len(snapshot.table.rows) = 2
    /\ loc[1].snap0.exists /\ loc[1].snap0.last_ts # snapshot.last_ts

\* the positions of run_once at which the next statement reads or writes the store, or
\* has done so: lines 136-144 and the return
StoreAccess == {"L136", "L137", "L140", "L141", "L142", "L64", "L74", "L95", "done"}

\* C17: whenever a run stands at or after its first access to the store, or has failed
\* while persisting or rendering, context.close() and browser.close() have both
\* returned and the with block of sync_playwright has been left; and a step of a run
\* that changes the store or the snapshot is taken with that run's context and browser
\* closed.
C17_TeardownFirst ==
    /\ [](\A p \in Procs :
              loc[p].pc \in StoreAccess \/ loc[p].failedAt \in {"L126", "L137", "L141", "L64", "L69", "L95"} =>
                  loc[p].context = "closed" /\ loc[p].browser = "closed" /\ loc[p].pw = "stopped")
    /\ [][\A p \in Procs :
              loc'[p] # loc[p] /\ (store' # store \/ snapshot' # snapshot) =>
                  loc[p].context = "closed" /\ loc[p].browser = "closed"]_vars

\* a run failed in to_csv, leaving the store torn, with its browser session closed
C17_Witness == loc[1].pc = "aborted" /\ loc[1].failedAt = "L141" /\ torn /\ loc[1].browser = "closed" /\ loc[1].context = "closed"

====
